---- MODULE Spec2Model ----
(***************************************************************************)
(* The weekly planning prototype (AiRoadmapPrototype) and its allocation   *)
(* engine (the `schedule` memo), with the producer calls that replace the  *)
(* canonical initiative list.                                              *)
(*                                                                         *)
(* Numbers.  effortManDays, week, timelineWeeks and manDays are JavaScript *)
(* numbers.  The model keeps them as fixed-point integers: the integer n   *)
(* stands for n / Den, so Den is 1, Den + 1 is a fraction, -Den is -1.     *)
(* Arithmetic is exact (no floating-point rounding).  Initiative ids are   *)
(* plain integers.  Sequences are 1-based: JavaScript index idx is k - 1.  *)
(***************************************************************************)
EXTENDS Integers, Sequences, FiniteSets, TLC

VARIABLES
    initiatives,      \* useState<Initiative[]>: the canonical list
    okrs,             \* useState<Okr[]>
    timelineWeeks,    \* useState<number>: [nan |-> BOOLEAN, n |-> fixed-point]
    manDays,          \* useState<number>: fixed-point
    command,          \* useState<string>: the instruction text
    commandLoading,   \* useState<boolean>
    generateLoading,  \* useState<boolean>
    error,            \* useState<string | null>
    inflight,         \* producer requests awaiting their response
    schedule          \* the useMemo value of the last render

vars == <<initiatives, okrs, timelineWeeks, manDays, command, commandLoading,
          generateLoading, error, inflight, schedule>>

----------------------------------------------------------------------------
(* Bounds and value sets *)

\* denominator of the fixed-point numbers
Den == 2
\* longest initiative list the engine specification starts from
MaxLen == 2

Min(a, b) == IF a <= b THEN a ELSE b
Max(a, b) == IF a >= b THEN a ELSE b

Num(n) == [nan |-> FALSE, n |-> n]
NaN == [nan |-> TRUE, n |-> 0]

RECURSIVE SumSeq(_)
SumSeq(s) == IF s = <<>> THEN 0 ELSE Head(s) + SumSeq(Tail(s))

SeqsUpTo(S, n) == UNION {[1..k -> S] : k \in 0..n}

----------------------------------------------------------------------------
(* Capacity model: part_000 lines 65-66 *)

\* a clamp that forgets the > 0 test
SafeWeeksUnclamped(tw) == IF ~tw.nan THEN tw.n ELSE Den

\* const safeWeeks = Number.isFinite(timelineWeeks) && timelineWeeks > 0 ? timelineWeeks : 1
SafeWeeks(tw) == IF ~tw.nan /\ tw.n > 0 THEN tw.n ELSE Den

\* for (let w = 1; w <= safeWeeks; w++) byWeek[w] = []  -- the keys it creates
WeekKeys(sw) == 1..(sw \div Den)

(***************************************************************************)
(* weeklyCapacity = manDays / safeWeeks is the rational md / sw.  Inside   *)
(* one plan every effort is counted in units of 1 / (Den * sw) man-days,   *)
(* which makes the division exact: an effort e (fixed-point) is e * sw     *)
(* units and the weekly capacity is md * Den units.                        *)
(***************************************************************************)
PlanUnits(e, sw) == e * sw
WeeklyCapacity(md, sw) == md * Den

----------------------------------------------------------------------------
(* Allocation engine: part_000 lines 68-102 *)

\* a comparator whose tie-break runs the wrong way
CompareIdDescending(a, b) == IF a.week - b.week # 0 THEN a.week - b.week ELSE b.id - a.id

\* (a, b) => a.week - b.week || a.id - b.id
Compare(a, b) == IF a.week - b.week # 0 THEN a.week - b.week ELSE a.id - b.id

\* Array.prototype.sort is stable: x goes behind every element not after it
RECURSIVE InsertSorted(_, _)
InsertSorted(s, x) ==
    IF s = <<>> THEN <<x>>
    ELSE IF Compare(Head(s), x) <= 0
         THEN <<Head(s)>> \o InsertSorted(Tail(s), x)
         ELSE <<x>> \o s

RECURSIVE Sorted(_)
Sorted(list) ==
    IF list = <<>> THEN <<>>
    ELSE InsertSorted(Sorted(SubSeq(list, 1, Len(list) - 1)), list[Len(list)])

\* a cursor that starts one week after the requested week
StartWeekLate(item) == Max(Den, item.week) + Den

\* let w = Math.max(1, item.week)
StartWeek(item) == Max(Den, item.week)

\* byWeek[w].reduce((s, i) => s + i.effortManDays, 0)
Used(frags) == SumSeq([k \in 1..Len(frags) |-> frags[k].effortManDays])

\* a placement that forgets the capacity left
EffortThisWeekAll(remaining, capacityLeft) == remaining

\* const effortThisWeek = Math.min(remaining, capacityLeft)
EffortThisWeek(remaining, capacityLeft) == Min(remaining, capacityLeft)

\* { ...item, effortManDays: effortThisWeek, week: w }
Fragment(item, effort, w) == [item EXCEPT !.effortManDays = effort, !.week = w]

(***************************************************************************)
(* The while loop of one item.  st = [byWeek, remaining, w, threw]; w is   *)
(* the fixed-point cursor.  byWeek[w] of a cursor that is no key is        *)
(* undefined and .reduce on it raises a TypeError.                         *)
(***************************************************************************)
RECURSIVE PlaceLoop(_, _, _, _)
PlaceLoop(st, item, cap, sw) ==
    IF ~(st.remaining > 0 /\ st.w <= sw) THEN st
    ELSE IF ~(st.w % Den = 0 /\ (st.w \div Den) \in DOMAIN st.byWeek)
    THEN [st EXCEPT !.threw = TRUE]
    ELSE LET k == st.w \div Den
             capacityLeft == cap - Used(st.byWeek[k])
         IN  IF capacityLeft <= 0
             THEN PlaceLoop([st EXCEPT !.w = st.w + Den], item, cap, sw)
             ELSE LET effortThisWeek == EffortThisWeek(st.remaining, capacityLeft)
                  IN  PlaceLoop([st EXCEPT
                                   !.byWeek[k] = Append(@, Fragment(item, effortThisWeek, st.w)),
                                   !.remaining = @ - effortThisWeek,
                                   !.w = @ + Den],
                                item, cap, sw)

\* a backlog test that is off by one
GoesToBacklogAlways(remaining) == remaining >= 0

\* if (remaining > 0) backlog.push(item)
GoesToBacklog(remaining) == remaining > 0

\* one iteration of `for (const item of sorted)`
PlaceItem(pl, item, cap, sw) ==
    IF pl.threw THEN pl
    ELSE LET st == PlaceLoop([byWeek |-> pl.byWeek,
                              remaining |-> PlanUnits(item.effortManDays, sw),
                              w |-> StartWeek(item), threw |-> FALSE],
                             item, cap, sw)
         IN  IF st.threw THEN [threw |-> TRUE, byWeek |-> <<>>, backlog |-> <<>>]
             ELSE [threw |-> FALSE,
                   byWeek |-> st.byWeek,
                   backlog |-> IF GoesToBacklog(st.remaining)
                               THEN Append(pl.backlog, item) ELSE pl.backlog]

RECURSIVE PlaceAll(_, _, _, _)
PlaceAll(pl, items, cap, sw) ==
    IF items = <<>> THEN pl
    ELSE PlaceAll(PlaceItem(pl, Head(items), cap, sw), Tail(items), cap, sw)

\* the useMemo body: { byWeek, backlog }, or threw when the body raised
Schedule(list, tw, md) ==
    LET sw == SafeWeeks(tw)
    IN  PlaceAll([threw |-> FALSE,
                  byWeek |-> [w \in WeekKeys(sw) |-> <<>>],
                  backlog |-> <<>>],
                 Sorted(list), WeeklyCapacity(md, sw), sw)

\* an uncaught error while rendering unmounts the component tree
Mounted == ~schedule.threw

----------------------------------------------------------------------------
(* JSON values of a producer response, and the JavaScript conversions *)

Undefined == [t |-> "undefined"]
JNull == [t |-> "null"]
JNum(n) == [t |-> "number", n |-> n]
JStr(s) == [t |-> "string", s |-> s]
JArr(a) == [t |-> "array", a |-> a]
JObj(o) == [t |-> "object", o |-> o]

\* property access i.name: undefined on a missing property or a primitive
Field(i, name) ==
    IF i.t = "object" /\ name \in DOMAIN i.o THEN i.o[name] ELSE Undefined

\* ToBoolean, as used by || 
Truthy(v) ==
    CASE v.t = "undefined" -> FALSE
      [] v.t = "null" -> FALSE
      [] v.t = "number" -> v.n # 0
      [] v.t = "string" -> v.s # ""
      [] OTHER -> TRUE

\* Number.isFinite(x): a JSON number is finite, anything else is not a number
NumberIsFinite(v) == v.t = "number"

\* the numeric strings the payloads use, with their values
NumericStrings == [s \in {"2"} |-> 2 * Den]

\* Number(x)
ToNumber(v) ==
    CASE v.t = "number" -> Num(v.n)
      [] v.t = "null" -> Num(0)
      [] v.t = "string" -> IF v.s = "" THEN Num(0)
                           ELSE IF v.s \in DOMAIN NumericStrings
                                THEN Num(NumericStrings[v.s]) ELSE NaN
      [] v.t = "array" -> IF v.a = <<>> THEN Num(0) ELSE NaN
      [] OTHER -> NaN

\* Number(x) || fallback: NaN and 0 are falsy
NumberOr(v, fallback) ==
    LET x == ToNumber(v) IN IF x.nan \/ x.n = 0 THEN fallback ELSE x.n

\* Math.round: to the nearest integer, halves towards +Infinity
MathRound(n) == ((2 * n + Den) \div (2 * Den)) * Den

\* String(x) of a truthy x (whole numbers print without a fraction)
ToStr(v) ==
    CASE v.t = "string" -> v.s
      [] v.t = "number" /\ v.n % Den = 0 -> ToString(v.n \div Den)
      [] OTHER -> "[object Object]"

\* String(x || fallback)
StringOr(v, fallback) == IF Truthy(v) THEN ToStr(v) ELSE fallback

\* Array.isArray(x) ? x : []
ArrayOr(v) == IF v.t = "array" THEN v.a ELSE <<>>

----------------------------------------------------------------------------
(* Frontend normaliser: part_000 lines 33-43 *)

\* id: Number.isFinite(i.id) ? i.id : Date.now() + idx
NormalId(i, idx, now) ==
    IF NumberIsFinite(Field(i, "id")) THEN Field(i, "id").n ELSE now + idx

\* effortManDays: Math.round(Number(i.effortManDays) || 0)
NormalEffort(i) == MathRound(NumberOr(Field(i, "effortManDays"), 0))

\* week: Number(i.week) || 1
NormalWeek(i) == NumberOr(Field(i, "week"), Den)

\* the object literal of the map callback; k is the 1-based position
NormalOne(i, k, now) ==
    [id |-> NormalId(i, k - 1, now),
     title |-> StringOr(Field(i, "title"), "Task " \o ToString(k)),
     effortManDays |-> NormalEffort(i),
     week |-> NormalWeek(i),
     okr |-> StringOr(Field(i, "okr"), "Unassigned"),
     taskDependencies |-> ArrayOr(Field(i, "taskDependencies")),
     teamDependencies |-> ArrayOr(Field(i, "teamDependencies"))]

\* reading i.id of null or undefined raises a TypeError
ElementThrows(i) == i.t \in {"null", "undefined"}

\* a normaliser that guards every access (raw?.map, i?.id) and so never raises
normaliseInitiativesLenient(raw, now) ==
    [threw |-> FALSE, message |-> "",
     list |-> IF raw.t = "array"
              THEN [k \in 1..Len(raw.a) |-> NormalOne(raw.a[k], k, now)]
              ELSE <<>>]

(***************************************************************************)
(* normaliseInitiatives(raw): (raw || []).map(...).  A truthy raw that is  *)
(* no array has no .map, and a null element has no .id: both raise.  The   *)
(* result is [threw, message, list].                                       *)
(***************************************************************************)
normaliseInitiatives(raw, now) ==
    IF ~Truthy(raw) THEN [threw |-> FALSE, message |-> "", list |-> <<>>]
    ELSE IF raw.t # "array"
    THEN [threw |-> TRUE, message |-> "(raw || []).map is not a function", list |-> <<>>]
    ELSE IF \E k \in 1..Len(raw.a) : ElementThrows(raw.a[k])
    THEN [threw |-> TRUE, message |-> "Cannot read properties of null (reading 'id')",
          list |-> <<>>]
    ELSE [threw |-> FALSE, message |-> "",
          list |-> [k \in 1..Len(raw.a) |-> NormalOne(raw.a[k], k, now)]]

----------------------------------------------------------------------------
(* Rendering and the local edit handlers: part_000 lines 104-113, 171-206, 225-345 *)

\* the memo is recomputed from the state the handler leaves
Render == schedule' = Schedule(initiatives', timelineWeeks', manDays')

RECURSIVE Flatten(_)
Flatten(ss) == IF ss = <<>> THEN <<>> ELSE Head(ss) \o Flatten(Tail(ss))

\* every fragment shown under a week, week by week
WeekFragments(pl) == Flatten([w \in 1..Len(pl.byWeek) |-> pl.byWeek[w]])

Range(s) == {s[k] : k \in 1..Len(s)}

\* the cards of the week columns and of the backlog list
WeekCards == Range(WeekFragments(schedule))
BacklogCards == Range(schedule.backlog)

\* prev.map(x => x.id === id ? F(x) : x)
MapById(list, id, F) ==
    [k \in 1..Len(list) |-> IF list[k].id = id THEN F[list[k]] ELSE list[k]]

\* [...new Set(s)]: first occurrences, in order
RECURSIVE Dedup(_)
Dedup(s) ==
    IF s = <<>> THEN <<>>
    ELSE LET init == Dedup(SubSeq(s, 1, Len(s) - 1))
             last == s[Len(s)]
         IN  IF last \in Range(init) THEN init ELSE Append(init, last)

\* deps.filter(dep => dep !== d)
Without(deps, d) == LET Keep(x) == x # d IN SelectSeq(deps, Keep)

\* [...new Set([...deps, val])]
WithDependency(deps, val) == Dedup(Append(deps, val))

\* the value an effort box stores: Number(e.target.value), unclamped
EffortFromInput(v) == v

\* prev.findIndex(i => i.id === id), 1-based; 0 when absent
FindIndex(list, id) ==
    IF \E k \in 1..Len(list) : list[k].id = id
    THEN CHOOSE k \in 1..Len(list) :
             list[k].id = id /\ \A j \in 1..(k - 1) : list[j].id # id
    ELSE 0

\* arrayMove of @dnd-kit/sortable: take the element out, put it in at `to`
arrayMove(list, from, to) ==
    LET x == list[from]
        rest == SubSeq(list, 1, from - 1) \o SubSeq(list, from + 1, Len(list))
    IN  SubSeq(rest, 1, to - 1) \o <<x>> \o SubSeq(rest, to, Len(rest))

UnchangedSession == UNCHANGED <<okrs, timelineWeeks, manDays, command, commandLoading,
                                generateLoading, error, inflight>>

\* title box of a week card or a backlog card
EditTitle(id, text) ==
    /\ Mounted
    /\ \E c \in WeekCards \cup BacklogCards : c.id = id
    /\ LET F == [x \in Range(initiatives) |-> [x EXCEPT !.title = text]]
       IN  initiatives' = MapById(initiatives, id, F)
    /\ UnchangedSession
    /\ Render

\* effort box of a week card or a backlog card
EditEffort(id, v) ==
    /\ Mounted
    /\ \E c \in WeekCards \cup BacklogCards : c.id = id
    /\ LET F == [x \in Range(initiatives) |-> [x EXCEPT !.effortManDays = EffortFromInput(v)]]
       IN  initiatives' = MapById(initiatives, id, F)
    /\ UnchangedSession
    /\ Render

\* the x button of a task dependency chip (week card or backlog card)
RemoveTaskDependency(id, d) ==
    /\ Mounted
    /\ \E c \in WeekCards \cup BacklogCards : c.id = id /\ d \in Range(c.taskDependencies)
    /\ LET F == [x \in Range(initiatives) |-> [x EXCEPT !.taskDependencies = Without(@, d)]]
       IN  initiatives' = MapById(initiatives, id, F)
    /\ UnchangedSession
    /\ Render

\* Enter in the "Add task dependency" box of a week card; val is trimmed, non-empty
AddTaskDependency(id, val) ==
    /\ Mounted
    /\ val # ""
    /\ \E c \in WeekCards : c.id = id
    /\ LET F == [x \in Range(initiatives) |-> [x EXCEPT !.taskDependencies = WithDependency(@, val)]]
       IN  initiatives' = MapById(initiatives, id, F)
    /\ UnchangedSession
    /\ Render

RemoveTeamDependency(id, d) ==
    /\ Mounted
    /\ \E c \in WeekCards \cup BacklogCards : c.id = id /\ d \in Range(c.teamDependencies)
    /\ LET F == [x \in Range(initiatives) |-> [x EXCEPT !.teamDependencies = Without(@, d)]]
       IN  initiatives' = MapById(initiatives, id, F)
    /\ UnchangedSession
    /\ Render

AddTeamDependency(id, val) ==
    /\ Mounted
    /\ val # ""
    /\ \E c \in WeekCards : c.id = id
    /\ LET F == [x \in Range(initiatives) |-> [x EXCEPT !.teamDependencies = WithDependency(@, val)]]
       IN  initiatives' = MapById(initiatives, id, F)
    /\ UnchangedSession
    /\ Render

\* onDragEnd({active, over}) with over resolved; active and over are week cards
onDragEnd(activeId, overId) ==
    /\ Mounted
    /\ \E c \in WeekCards : c.id = activeId
    /\ \E c \in WeekCards : c.id = overId
    /\ activeId # overId
    /\ initiatives' = arrayMove(initiatives, FindIndex(initiatives, activeId),
                                FindIndex(initiatives, overId))
    /\ UnchangedSession
    /\ Render

\* the X button of an OKR row: drops the OKR and every initiative tagged with its text
DeleteOkr(k) ==
    /\ Mounted
    /\ k \in 1..Len(okrs)
    /\ LET o == okrs[k]
           KeepOkr(x) == x.id # o.id
           KeepInitiative(i) == i.okr # o.text
       IN  /\ okrs' = SelectSeq(okrs, KeepOkr)
           /\ initiatives' = SelectSeq(initiatives, KeepInitiative)
    /\ UNCHANGED <<timelineWeeks, manDays, command, commandLoading, generateLoading,
                   error, inflight>>
    /\ Render

\* "Add OKR": { id: Date.now(), text: 'New OKR' }
AddOkr(now) ==
    /\ Mounted
    /\ okrs' = Append(okrs, [id |-> now, text |-> "New OKR"])
    /\ UNCHANGED <<initiatives, timelineWeeks, manDays, command, commandLoading,
                   generateLoading, error, inflight>>
    /\ Render

\* text box of an OKR row
EditOkrText(k, text) ==
    /\ Mounted
    /\ k \in 1..Len(okrs)
    /\ okrs' = [j \in 1..Len(okrs) |->
                  IF okrs[j].id = okrs[k].id THEN [okrs[j] EXCEPT !.text = text] ELSE okrs[j]]
    /\ UNCHANGED <<initiatives, timelineWeeks, manDays, command, commandLoading,
                   generateLoading, error, inflight>>
    /\ Render

\* "Timeline (weeks)" box: setTimelineWeeks(Number(e.target.value))
setTimelineWeeks(v) ==
    /\ Mounted
    /\ timelineWeeks' = v
    /\ UNCHANGED <<initiatives, okrs, manDays, command, commandLoading, generateLoading,
                   error, inflight>>
    /\ Render

\* "Total man-days" box: setManDays(Number(e.target.value))
setManDays(v) ==
    /\ Mounted
    /\ manDays' = v
    /\ UNCHANGED <<initiatives, okrs, timelineWeeks, command, commandLoading,
                   generateLoading, error, inflight>>
    /\ Render

\* the instruction textarea
setCommand(text) ==
    /\ Mounted
    /\ command' = text
    /\ UNCHANGED <<initiatives, okrs, timelineWeeks, manDays, commandLoading,
                   generateLoading, error, inflight>>
    /\ Render

----------------------------------------------------------------------------
(* Producer calls: part_000 lines 26-30, 115-158; server.js lines 86-88, 220-222 *)

NoError == <<>>
Message(m) == <<m>>

\* okrs.map(o => o.text)
OkrTexts == [k \in 1..Len(okrs) |-> okrs[k].text]

\* server.js: if (!Array.isArray(okrs) || okrs.length === 0) return res.status(400)...
\*            if (!command) return res.status(400)...
\* a generate guard that lets every objective list through
GenerateGuardOff(okrsField) == FALSE

\* server.js 86: !Array.isArray(okrs) || okrs.length === 0
GenerateGuard(okrsField) == okrsField.t # "array" \/ okrsField.a = <<>>

\* server.js 220: !command
ModifyGuard(commandField) == ~Truthy(commandField)

\* the guard's verdict on the body the page sends: okrs.map(o => o.text), command
BackendRejects(kind, okrTexts, instruction) ==
    IF kind = "generate" THEN GenerateGuard(JArr(okrTexts))
    ELSE ModifyGuard(JStr(instruction))

BackendRejection(kind) ==
    IF kind = "generate" THEN "{\"error\":\"At least one OKR is required\"}"
    ELSE "{\"error\":\"Command is required\"}"

(***************************************************************************)
(* A request in flight.  Its body is fixed when it is sent, so the verdict *)
(* of the backend's guard on the body is fixed too: the request keeps that *)
(* verdict in place of the body.                                           *)
(***************************************************************************)
GenerateRequest ==
    [kind |-> "generate", rejected |-> BackendRejects("generate", OkrTexts, "")]
ModifyRequest ==
    [kind |-> "modify", rejected |-> BackendRejects("modify", OkrTexts, command)]

NetworkError == [status |-> "network", text |-> "Failed to fetch", data |-> JNull]
NotOk(text) == [status |-> "notok", text |-> text, data |-> JNull]
Ok(data) == [status |-> "ok", text |-> "", data |-> data]

(***************************************************************************)
(* safeFetch: fetch rejects on a network error; a response that is not ok  *)
(* raises Error(await res.text()); otherwise the parsed body is returned.  *)
(***************************************************************************)
safeFetch(resp) ==
    IF resp.status = "ok"
    THEN [threw |-> FALSE, message |-> "", data |-> resp.data]
    ELSE [threw |-> TRUE, message |-> resp.text, data |-> JNull]

(***************************************************************************)
(* The try block after the await: data.initiatives of a null body raises,  *)
(* then normaliseInitiatives may raise; the list is set only after both.   *)
(***************************************************************************)
TryBlock(resp, now) ==
    LET fetched == safeFetch(resp)
    IN  IF fetched.threw THEN [threw |-> TRUE, message |-> fetched.message, list |-> <<>>]
        ELSE IF fetched.data.t \in {"null", "undefined"}
        THEN [threw |-> TRUE,
              message |-> "Cannot read properties of null (reading 'initiatives')",
              list |-> <<>>]
        ELSE normaliseInitiatives(Field(fetched.data, "initiatives"), now)

\* "Generate roadmap" button, disabled while generateLoading
generateRoadmap ==
    /\ Mounted
    /\ ~generateLoading
    /\ generateLoading' = TRUE
    /\ error' = NoError
    /\ inflight' = inflight \cup {GenerateRequest}
    /\ UNCHANGED <<initiatives, okrs, timelineWeeks, manDays, command, commandLoading>>
    /\ Render

\* "Apply AI instruction" button, disabled while commandLoading
applyAiInstruction ==
    /\ Mounted
    /\ ~commandLoading
    /\ commandLoading' = TRUE
    /\ error' = NoError
    /\ inflight' = inflight \cup {ModifyRequest}
    /\ UNCHANGED <<initiatives, okrs, timelineWeeks, manDays, command, generateLoading>>
    /\ Render

\* the finally block: the loading flag of the call that settled
Finally(req) ==
    IF req.kind = "generate"
    THEN generateLoading' = FALSE /\ UNCHANGED commandLoading
    ELSE commandLoading' = FALSE /\ UNCHANGED generateLoading

\* the continuation of the call once its response is there
Settle(req, resp, now) ==
    /\ Mounted
    /\ req \in inflight
    /\ inflight' = inflight \ {req}
    /\ LET out == TryBlock(resp, now)
       IN  IF out.threw
           THEN /\ error' = Message(out.message)
                /\ UNCHANGED <<initiatives, command>>
           ELSE /\ initiatives' = out.list
                /\ command' = IF req.kind = "modify" THEN "" ELSE command
                /\ UNCHANGED error
    /\ Finally(req)
    /\ UNCHANGED <<okrs, timelineWeeks, manDays>>
    /\ Render

----------------------------------------------------------------------------
(* The backend: server.js lines 28-62, 69-190, 197-321 *)

\* one element of raw.map in the backend: effortManDays is not rounded
BackendNormalOne(i, k, now) ==
    [id |-> NormalId(i, k - 1, now),
     title |-> StringOr(Field(i, "title"), "Task " \o ToString(k)),
     effortManDays |-> NumberOr(Field(i, "effortManDays"), 0),
     week |-> NumberOr(Field(i, "week"), Den),
     okr |-> StringOr(Field(i, "okr"), "Unassigned"),
     taskDependencies |-> ArrayOr(Field(i, "taskDependencies")),
     teamDependencies |-> ArrayOr(Field(i, "teamDependencies"))]

(***************************************************************************)
(* normalizeInitiatives(raw = []): the default stands in for undefined     *)
(* only; null has no .map, a value that is no array has no .map function,  *)
(* and a null element has no .id.  The result is [threw, message, list].   *)
(***************************************************************************)
normalizeInitiatives(raw, now) ==
    IF raw.t = "undefined" THEN [threw |-> FALSE, message |-> "", list |-> <<>>]
    ELSE IF raw.t = "null"
    THEN [threw |-> TRUE, message |-> "Cannot read properties of null (reading 'map')",
          list |-> <<>>]
    ELSE IF raw.t # "array"
    THEN [threw |-> TRUE, message |-> "raw.map is not a function", list |-> <<>>]
    ELSE IF \E k \in 1..Len(raw.a) : ElementThrows(raw.a[k])
    THEN [threw |-> TRUE, message |-> "Cannot read properties of null (reading 'id')",
          list |-> <<>>]
    ELSE [threw |-> FALSE, message |-> "",
          list |-> [k \in 1..Len(raw.a) |-> BackendNormalOne(raw.a[k], k, now)]]

\* an initiative as res.json writes it and res.json() of the page reads it
ToJson(i) ==
    JObj([id |-> JNum(i.id), title |-> JStr(i.title),
          effortManDays |-> JNum(i.effortManDays), week |-> JNum(i.week),
          okr |-> JStr(i.okr),
          taskDependencies |-> JArr(i.taskDependencies),
          teamDependencies |-> JArr(i.teamDependencies)])

ListToJson(list) == JArr([k \in 1..Len(list) |-> ToJson(list[k])])

\* JSON.stringify({ error: m })
ErrorText(m) == "{\"error\":\"" \o m \o "\"}"

(***************************************************************************)
(* What the call to the model gives the route: fetch, raw.choices[0],      *)
(* the empty-content test or safeJsonParse raised, or the parsed content.  *)
(***************************************************************************)
LlmThrew(m) == [threw |-> TRUE, message |-> m, parsed |-> JNull]
LlmParsed(v) == [threw |-> FALSE, message |-> "", parsed |-> v]

\* the route after its guard: the model is asked, its answer normalised
AfterGuard(llm, now) ==
    IF llm.threw
    THEN [status |-> 500, text |-> ErrorText(llm.message), data |-> JNull, asked |-> TRUE]
    ELSE IF llm.parsed.t \in {"null", "undefined"}
    THEN [status |-> 500,
          text |-> ErrorText("Cannot read properties of null (reading 'initiatives')"),
          data |-> JNull, asked |-> TRUE]
    ELSE LET out == normalizeInitiatives(Field(llm.parsed, "initiatives"), now)
         IN  IF out.threw
             THEN [status |-> 500, text |-> ErrorText(out.message), data |-> JNull,
                   asked |-> TRUE]
             ELSE [status |-> 200, text |-> "",
                   data |-> JObj([initiatives |-> ListToJson(out.list)]), asked |-> TRUE]

\* POST /ai/generate-roadmap; asked tells whether fetch(OPENAI_URL) was reached
generateRoadmapRoute(okrsField, llm, now) ==
    IF GenerateGuard(okrsField)
    THEN [status |-> 400, text |-> ErrorText("At least one OKR is required"),
          data |-> JNull, asked |-> FALSE]
    ELSE AfterGuard(llm, now)

\* POST /ai/modify-roadmap
modifyRoadmapRoute(commandField, llm, now) ==
    IF ModifyGuard(commandField)
    THEN [status |-> 400, text |-> ErrorText("Command is required"),
          data |-> JNull, asked |-> FALSE]
    ELSE AfterGuard(llm, now)

\* the route's answer as safeFetch of the page meets it
AsResponse(r) == IF r.status = 200 THEN Ok(r.data) ELSE NotOk(r.text)

----------------------------------------------------------------------------
(* The session: producer calls, the instruction box and the OKR rows *)

\* longest initiative array a producer response carries
MaxRaw == 2
\* most OKR rows the session holds
MaxOkrs == 1

FirstOkr == "Increase paid conversion by 15%"

\* Date.now() as a call may read it
ClockValues == {100}

RawA == JObj([id |-> JNum(1), title |-> JStr("Checkout"),
              effortManDays |-> JNum(7 * Den), week |-> JNum(Den),
              okr |-> JStr(FirstOkr),
              taskDependencies |-> JArr(<<"api">>),
              teamDependencies |-> JArr(<<>>)])
RawB == JObj([title |-> JStr(""), effortManDays |-> JNum(2 * Den + 1),
              week |-> JNum(-Den), okr |-> JNull,
              taskDependencies |-> JArr(<<"api", "api">>),
              teamDependencies |-> JStr("design")])

RawElements == {RawA, RawB, JNull}

\* response bodies: no body object, no list, a list that is no array, arrays
Bodies ==
    {JNull, JObj([initiatives |-> Undefined]), JObj([initiatives |-> JStr("none")])}
    \cup {JObj([initiatives |-> JArr(a)]) : a \in SeqsUpTo(RawElements, MaxRaw)}

\* what a call can get back: the backend's guards answer 400 before the model is asked
Responses(req) ==
    IF req.rejected
    THEN {NetworkError, NotOk(BackendRejection(req.kind))}
    ELSE {NetworkError, NotOk("{\"error\":\"LLM returned invalid JSON\"}")}
         \cup {Ok(d) : d \in Bodies}

CommandInputs == {"", "push checkout to week 2"}

\* what the model's answer can be once a route asks it
LlmOutcomes ==
    {LlmThrew("fetch failed"), LlmThrew("Empty response from OpenAI"),
     LlmThrew("LLM returned invalid JSON")}
    \cup {LlmParsed(d) : d \in Bodies \cup {JObj([initiatives |-> JNull])}}

Init ==
    /\ initiatives = <<>>
    /\ okrs = <<[id |-> 1, text |-> FirstOkr]>>
    /\ timelineWeeks = Num(12 * Den)
    /\ manDays = 50 * Den
    /\ command = ""
    /\ commandLoading = FALSE
    /\ generateLoading = FALSE
    /\ error = NoError
    /\ inflight = {}
    /\ schedule = Schedule(initiatives, timelineWeeks, manDays)

Next ==
    \/ generateRoadmap
    \/ applyAiInstruction
    \/ \E req \in inflight : \E resp \in Responses(req) : \E now \in ClockValues :
           Settle(req, resp, now)
    \/ \E text \in CommandInputs : setCommand(text)
    \/ \E k \in 1..Len(okrs) : DeleteOkr(k)
    \/ \E now \in ClockValues : Len(okrs) < MaxOkrs /\ AddOkr(now)

Spec == Init /\ [][Next]_vars

----------------------------------------------------------------------------
(* The page and the backend together: every answer the page handles is the  *)
(* answer the route computes from what the model returned                   *)

\* the route's answer to a request in flight, whose guard verdict is req.rejected
Answer(req, llm, now) ==
    IF req.kind = "generate"
    THEN generateRoadmapRoute(IF req.rejected THEN JArr(<<>>) ELSE JArr(<<FirstOkr>>),
                              llm, now)
    ELSE modifyRoadmapRoute(IF req.rejected THEN JStr("") ELSE JStr("push checkout to week 2"),
                            llm, now)

\* the route answers at its clock value, the page handles the answer at a later one
StackSettle(req, llm, now, later) == Settle(req, AsResponse(Answer(req, llm, now)), later)

NextStack ==
    \/ generateRoadmap
    \/ applyAiInstruction
    \/ \E req \in inflight : \E llm \in LlmOutcomes : \E now \in ClockValues :
           \E later \in ClockValues : StackSettle(req, llm, now, later)
    \/ \E req \in inflight : \E later \in ClockValues : Settle(req, NetworkError, later)
    \/ \E text \in CommandInputs : setCommand(text)
    \/ \E k \in 1..Len(okrs) : DeleteOkr(k)
    \/ \E now \in ClockValues : Len(okrs) < MaxOkrs /\ AddOkr(now)

SpecStack == Init /\ [][NextStack]_vars

----------------------------------------------------------------------------
(* The cards: the local edit handlers on lists a producer call has put there *)

\* longest list the card specification starts from
MaxCards == 2

TitleInputs == {"Renamed"}
EffortInputs == {-Den}
TaskDependencyInputs == {"api"}
TeamDependencyInputs == {"design"}
OkrTextInputs == {"Unassigned"}

InitEdit ==
    /\ \E a \in SeqsUpTo(RawElements \ {JNull}, MaxCards) : \E now \in ClockValues :
           initiatives = normaliseInitiatives(JArr(a), now).list
    /\ okrs = <<[id |-> 1, text |-> FirstOkr]>>
    /\ timelineWeeks = Num(12 * Den)
    /\ manDays = 50 * Den
    /\ command = ""
    /\ commandLoading = FALSE
    /\ generateLoading = FALSE
    /\ error = NoError
    /\ inflight = {}
    /\ schedule = Schedule(initiatives, timelineWeeks, manDays)

Cards == WeekCards \cup BacklogCards

NextEdit ==
    \/ \E c \in Cards : \E text \in TitleInputs : EditTitle(c.id, text)
    \/ \E c \in Cards : \E v \in EffortInputs : EditEffort(c.id, v)
    \/ \E c \in Cards : \E d \in Range(c.taskDependencies) : RemoveTaskDependency(c.id, d)
    \/ \E c \in Cards : \E d \in Range(c.teamDependencies) : RemoveTeamDependency(c.id, d)
    \/ \E c \in WeekCards : \E val \in TaskDependencyInputs : AddTaskDependency(c.id, val)
    \/ \E c \in WeekCards : \E val \in TeamDependencyInputs : AddTeamDependency(c.id, val)
    \/ \E a \in WeekCards : \E o \in WeekCards : onDragEnd(a.id, o.id)
    \/ \E k \in 1..Len(okrs) : DeleteOkr(k)
    \/ \E k \in 1..Len(okrs) : \E text \in OkrTextInputs : EditOkrText(k, text)

SpecEdit == InitEdit /\ [][NextEdit]_vars

----------------------------------------------------------------------------
(* The engine on its own: any list the repository can hold, any capacity input *)

EngineIds == {1, 2}
EngineEfforts == {-Den, Den + 1, 4 * Den, 7 * Den}
EngineWeeks == {-Den, Den, Den + 1, 2 * Den}

EngineItems ==
    {[id |-> i, title |-> "Task", effortManDays |-> e, week |-> w, okr |-> FirstOkr,
      taskDependencies |-> <<>>, teamDependencies |-> <<>>] :
        i \in EngineIds, e \in EngineEfforts, w \in EngineWeeks}

EngineTimelines == {NaN, Num(-Den), Num(0), Num(2 * Den), Num(2 * Den + 1)}
EngineManDays == {0, 10 * Den}

InitAlloc ==
    /\ initiatives \in SeqsUpTo(EngineItems, MaxLen)
    /\ okrs = <<[id |-> 1, text |-> FirstOkr]>>
    /\ timelineWeeks \in EngineTimelines
    /\ manDays \in EngineManDays
    /\ command = ""
    /\ commandLoading = FALSE
    /\ generateLoading = FALSE
    /\ error = NoError
    /\ inflight = {}
    /\ schedule = Schedule(initiatives, timelineWeeks, manDays)

\* every capacity input is among the initial states; the boxes are then set to
\* the capacity of the worked example, two weeks of five man-days
TimelineEdits == {Num(2 * Den)}
ManDaysEdits == {10 * Den}

NextAlloc ==
    \/ \E v \in TimelineEdits : setTimelineWeeks(v)
    \/ \E v \in ManDaysEdits : setManDays(v)

SpecAlloc == InitAlloc /\ [][NextAlloc]_vars

----------------------------------------------------------------------------
(* Reordering on its own: drags over any list the repository can hold *)

\* longest list the reordering specification starts from
MaxReorder == 3

ReorderItems ==
    {[id |-> i, title |-> "Task", effortManDays |-> e, week |-> w, okr |-> FirstOkr,
      taskDependencies |-> <<>>, teamDependencies |-> <<>>] :
        i \in {1, 2}, e \in {3 * Den, 5 * Den}, w \in {Den, 2 * Den}}

InitReorder ==
    /\ initiatives \in SeqsUpTo(ReorderItems, MaxReorder)
    /\ okrs = <<[id |-> 1, text |-> FirstOkr]>>
    /\ timelineWeeks = Num(12 * Den)
    /\ manDays = 50 * Den
    /\ command = ""
    /\ commandLoading = FALSE
    /\ generateLoading = FALSE
    /\ error = NoError
    /\ inflight = {}
    /\ schedule = Schedule(initiatives, timelineWeeks, manDays)

Drag == \E a \in WeekCards : \E o \in WeekCards : onDragEnd(a.id, o.id)

NextReorder == Drag

SpecReorder == InitReorder /\ [][NextReorder]_vars

----------------------------------------------------------------------------
(* Properties of the engine, checked under SpecAlloc *)

safeWeeks == SafeWeeks(timelineWeeks)
weeklyCapacity == WeeklyCapacity(manDays, safeWeeks)

\* the initiatives of the list carrying this id
WithId(id) == {k \in 1..Len(initiatives) : initiatives[k].id = id}
\* the fragments of a plan cannot be told apart when two initiatives share an id
UniqueId(k) == WithId(initiatives[k].id) = {k}

\* the fragments with this id in one week of a plan
FragmentsOf(pl, w, id) == LET Mine(f) == f.id = id IN SelectSeq(pl.byWeek[w], Mine)

\* effort of this id placed over all weeks, in plan units
Placed(pl, id) ==
    LET Mine(f) == f.id = id
    IN  Used(SelectSeq(WeekFragments(pl), Mine))

\* C1: in every week of a plan computed for manDays >= 0, the efforts of the
\* fragments placed in the week add up to at most weeklyCapacity.
CapacityBound ==
    (~schedule.threw /\ manDays >= 0) =>
        \A w \in DOMAIN schedule.byWeek : Used(schedule.byWeek[w]) <= weeklyCapacity

\* a week that two initiatives fill exactly, a fractional fragment among them,
\* with effort left over for the backlog
CapacityBoundWitness ==
    /\ ~schedule.threw
    /\ manDays > 0
    /\ schedule.backlog # <<>>
    /\ \E w \in DOMAIN schedule.byWeek :
           /\ Len(schedule.byWeek[w]) >= 2
           /\ Used(schedule.byWeek[w]) = weeklyCapacity
           /\ \E k \in 1..Len(schedule.byWeek[w]) :
                  schedule.byWeek[w][k].effortManDays % (Den * safeWeeks) # 0

\* C2: every initiative that is not in the backlog has fragments adding up to its
\* original effortManDays.
Conservation ==
    ~schedule.threw =>
        \A k \in 1..Len(initiatives) :
            (UniqueId(k) /\ initiatives[k] \notin Range(schedule.backlog)) =>
                Placed(schedule, initiatives[k].id)
                    = PlanUnits(initiatives[k].effortManDays, safeWeeks)

Count(s, x) == Cardinality({k \in 1..Len(s) : s[k] = x})

\* the worked example: weekCount 2, totalManDays 10, A{1, 7, week 1}, B{2, 4, week 1}
ExampleItem(id, effort) ==
    [id |-> id, title |-> "Task", effortManDays |-> effort * Den, week |-> Den,
     okr |-> FirstOkr, taskDependencies |-> <<>>, teamDependencies |-> <<>>]
ExampleInput ==
    /\ initiatives = <<ExampleItem(1, 7), ExampleItem(2, 4)>>
    /\ timelineWeeks = Num(2 * Den)
    /\ manDays = 10 * Den
ExamplePiece(id, effort, w) ==
    Fragment(ExampleItem(id, 0), PlanUnits(effort * Den, 2 * Den), w * Den)
ExamplePlan ==
    [threw |-> FALSE,
     byWeek |-> << <<ExamplePiece(1, 5, 1)>>,
                   <<ExamplePiece(1, 2, 2), ExamplePiece(2, 3, 2)>> >>,
     backlog |-> <<ExampleItem(2, 4)>>]

\* C3: an initiative is in the backlog exactly when effort remains after the
\* weeks; it is there once, as the original record (full effort, requested
\* week), beside its placed fragments; the backlog is in processing order (week,
\* then id); and the worked example gives week1=[A:5], week2=[A:2,B:3],
\* backlog=[B at effort 4, week 1].
BacklogAccounting ==
    /\ ~schedule.threw =>
        /\ \A k \in 1..Len(initiatives) :
               /\ Count(schedule.backlog, initiatives[k]) <= Count(initiatives, initiatives[k])
               /\ UniqueId(k) =>
                    /\ (initiatives[k] \in Range(schedule.backlog)) <=>
                           (PlanUnits(initiatives[k].effortManDays, safeWeeks)
                                - Placed(schedule, initiatives[k].id) > 0)
                    /\ Count(schedule.backlog, initiatives[k]) <= 1
        /\ \A j \in 1..Len(schedule.backlog) : schedule.backlog[j] \in Range(initiatives)
        /\ \A i, j \in 1..Len(schedule.backlog) :
               i < j =>
                   \/ schedule.backlog[i].week < schedule.backlog[j].week
                   \/ /\ schedule.backlog[i].week = schedule.backlog[j].week
                      /\ schedule.backlog[i].id <= schedule.backlog[j].id
    /\ ExampleInput => schedule = ExamplePlan

\* the worked example has been computed: B is in the backlog at effort 4 with
\* 3 of it placed in week 2
BacklogAccountingWitness ==
    /\ ExampleInput
    /\ schedule.backlog = <<ExampleItem(2, 4)>>
    /\ Placed(schedule, 2) = PlanUnits(3 * Den, safeWeeks)

\* position of the fragment with this id in a week; 0 when it has none
Position(pl, w, id) ==
    IF \E k \in 1..Len(pl.byWeek[w]) : pl.byWeek[w][k].id = id
    THEN CHOOSE k \in 1..Len(pl.byWeek[w]) : pl.byWeek[w][k].id = id
    ELSE 0

\* the list without its k-th initiative
Dropped(k) == SubSeq(initiatives, 1, k - 1) \o SubSeq(initiatives, k + 1, Len(initiatives))

\* a is processed before b: lower requested week, or the same week and a lower id
Before(a, b) == a.week < b.week \/ (a.week = b.week /\ a.id < b.id)

\* C4: of two initiatives the one with the lower requested week, or with the same
\* week and the lower id, claims capacity first: what it is given in each week is
\* what it is given with the other one absent, and in every week its fragment
\* comes before the other one's.
OrderingPrecedence ==
    ~schedule.threw =>
        \A a, b \in 1..Len(initiatives) :
            (UniqueId(a) /\ UniqueId(b) /\ Before(initiatives[a], initiatives[b])) =>
                LET ida == initiatives[a].id
                    idb == initiatives[b].id
                    alone == Schedule(Dropped(b), timelineWeeks, manDays)
                IN  \A w \in DOMAIN schedule.byWeek :
                        /\ FragmentsOf(schedule, w, ida) = FragmentsOf(alone, w, ida)
                        /\ (Position(schedule, w, ida) > 0 /\ Position(schedule, w, idb) > 0)
                               => Position(schedule, w, ida) < Position(schedule, w, idb)

\* two initiatives ask for week 1, which holds only one of them: id 1 fills it
\* and id 2 starts in week 2, though id 2 comes first in the list
OrderingPrecedenceWitness ==
    /\ ~schedule.threw
    /\ Len(initiatives) = 2
    /\ initiatives[1].id = 2 /\ initiatives[2].id = 1
    /\ initiatives[1].week = Den /\ initiatives[2].week = Den
    /\ Len(schedule.byWeek) >= 2
    /\ Used(FragmentsOf(schedule, 1, 1)) = weeklyCapacity
    /\ FragmentsOf(schedule, 1, 2) = <<>>
    /\ Position(schedule, 2, 1) = 1 /\ Position(schedule, 2, 2) = 2

\* the week count the claim describes
EffectiveWeekCount ==
    IF ~timelineWeeks.nan /\ timelineWeeks.n > 0 THEN timelineWeeks.n ELSE Den

\* C6: the plan has exactly the week keys 1..effectiveWeekCount, where
\* effectiveWeekCount is the configured count if finite and > 0 and 1 otherwise;
\* every key is there, empty or not, and every fragment sits under the key of
\* the week it carries.
WeekCompleteness ==
    ~schedule.threw =>
        /\ DOMAIN schedule.byWeek
               = {w \in 1..(EffectiveWeekCount \div Den + 1) : w * Den <= EffectiveWeekCount}
        /\ \A w \in DOMAIN schedule.byWeek :
               \A k \in 1..Len(schedule.byWeek[w]) : schedule.byWeek[w][k].week = w * Den

\* a week count of 0, negative or NaN: one week, holding a fragment of an
\* initiative that asked for a week below 1, and one that asked for week 2 in
\* the backlog
WeekCompletenessWitness ==
    /\ ~schedule.threw
    /\ (timelineWeeks.nan \/ timelineWeeks.n <= 0)
    /\ DOMAIN schedule.byWeek = {1}
    /\ \E k \in 1..Len(initiatives) :
           /\ initiatives[k].week < Den
           /\ Placed(schedule, initiatives[k].id) > 0
    /\ \E j \in 1..Len(schedule.backlog) : schedule.backlog[j].week = 2 * Den

----------------------------------------------------------------------------
(* Properties of reordering, checked under SpecReorder *)

\* C5: a drag reorder leaves the computed plan as it was: every week's
\* fragment sequence and the backlog sequence.
ReorderKeepsPlan == [][Drag => schedule' = schedule]_vars

\* the weeks of the plan at or after the week the initiative asked for
WeeksFrom(item) == {w \in DOMAIN schedule.byWeek : w * Den >= Max(Den, item.week)}

\* C14: in a plan computed for weeklyCapacity > 0, every week at or after the
\* requested week of a backlogged initiative is filled exactly to weeklyCapacity;
\* every fragment has effort > 0; an initiative has at most one fragment per week.
WorkConserving ==
    (~schedule.threw /\ weeklyCapacity > 0) =>
        /\ \A j \in 1..Len(schedule.backlog) : \A w \in WeeksFrom(schedule.backlog[j]) :
               Used(schedule.byWeek[w]) = weeklyCapacity
        /\ \A w \in DOMAIN schedule.byWeek : \A k \in 1..Len(schedule.byWeek[w]) :
               schedule.byWeek[w][k].effortManDays > 0
        /\ \A k \in 1..Len(initiatives) : \A w \in DOMAIN schedule.byWeek :
               UniqueId(k) => Len(FragmentsOf(schedule, w, initiatives[k].id)) <= 1

\* an initiative asking for the last week is backlogged after it took what an
\* earlier one, spilling from a full first week, left of that week
WorkConservingWitness ==
    /\ ~schedule.threw
    /\ weeklyCapacity > 0
    /\ DOMAIN schedule.byWeek = {1, 2}
    /\ \E j \in 1..Len(schedule.backlog) :
           /\ WeeksFrom(schedule.backlog[j]) = {2}
           /\ Len(FragmentsOf(schedule, 2, schedule.backlog[j].id)) = 1
           /\ Len(schedule.byWeek[2]) = 2
    /\ Used(schedule.byWeek[1]) = weeklyCapacity
    /\ Used(schedule.byWeek[2]) = weeklyCapacity

\* C12: every invocation of the allocation pass returns a plan: for every list
\* and every capacity input the recomputation of the memo raises no error.
AllocationCompletes == ~schedule.threw

----------------------------------------------------------------------------
(* Properties of the session, checked under Spec *)

\* a body normaliseInitiatives cannot take: no body object, a list that is
\* neither empty nor an array, an array with a null entry
Malformed(data) ==
    \/ data.t = "null"
    \/ LET raw == Field(data, "initiatives")
       IN  \/ raw.t \in {"string", "number", "object"} /\ Truthy(raw)
           \/ raw.t = "array" /\ \E k \in 1..Len(raw.a) : raw.a[k].t = "null"

\* a call that ends in failure: network error, non-OK status, malformed body
Fails(resp) == resp.status \in {"network", "notok"} \/ Malformed(resp.data)

\* C7: when a generate or modify call ends in failure, the canonical list after
\* the call is the list as it was before the response was handled, and an error
\* message is set.
FailureKeepsList ==
    [][\/ initiatives' = initiatives /\ error' # NoError
       \/ ~\E req \in inflight : \E resp \in Responses(req) : \E now \in ClockValues :
               Fails(resp) /\ Settle(req, resp, now)]_vars

\* a malformed body has been turned away while the list held initiatives
FailureKeepsListWitness ==
    /\ initiatives # <<>>
    /\ error = Message("Cannot read properties of null (reading 'id')")
    /\ inflight = {}

NoDuplicates(s) == \A i, j \in 1..Len(s) : s[i] = s[j] => i = j

\* C8: in every state every initiative of the canonical list has
\* effortManDays >= 0, week >= 1 and dependency lists without duplicates.
InitiativeInvariants ==
    \A k \in 1..Len(initiatives) :
        /\ initiatives[k].effortManDays >= 0
        /\ initiatives[k].week >= Den
        /\ NoDuplicates(initiatives[k].taskDependencies)
        /\ NoDuplicates(initiatives[k].teamDependencies)

\* C9: the ids of the canonical list are pairwise distinct.
IdsUnique ==
    \A i, j \in 1..Len(initiatives) : initiatives[i].id = initiatives[j].id => i = j

\* C10: at most one producer request is in flight.
OneCallAtATime == Cardinality(inflight) <= 1

\* the answers of the route to the body the page would send now
RouteAnswers(kind) ==
    {AsResponse(IF kind = "generate"
                THEN generateRoadmapRoute(JArr(OkrTexts), llm, now)
                ELSE modifyRoadmapRoute(JStr(command), llm, now)) :
        llm \in LlmOutcomes, now \in ClockValues}

\* objective lists that are no array
NonArrayOkrs == {Undefined, JNull, JStr(FirstOkr)}

\* the guards answer 400 without asking the model
GuardsComeFirst ==
    /\ \A o \in NonArrayOkrs \cup {JArr(<<>>)} : \A llm \in LlmOutcomes : \A now \in ClockValues :
           LET r == generateRoadmapRoute(o, llm, now) IN r.status = 400 /\ ~r.asked
    /\ \A c \in {Undefined, JStr("")} : \A llm \in LlmOutcomes : \A now \in ClockValues :
           LET r == modifyRoadmapRoute(c, llm, now) IN r.status = 400 /\ ~r.asked
    /\ OkrTexts = <<>> =>
           /\ GenerateRequest.rejected
           /\ RouteAnswers("generate") = {NotOk(BackendRejection("generate"))}
           /\ Responses(GenerateRequest) = {NetworkError} \cup RouteAnswers("generate")
    /\ command = "" =>
           /\ ModifyRequest.rejected
           /\ RouteAnswers("modify") = {NotOk(BackendRejection("modify"))}
           /\ Responses(ModifyRequest) = {NetworkError} \cup RouteAnswers("modify")

\* the page handles the answer to a rejected request: message set, list kept
RejectionSurfaces ==
    \A req \in inflight :
        \/ /\ initiatives' = initiatives
           /\ error' \in {Message(BackendRejection(req.kind)), Message(NetworkError.text)}
        \/ ~\E resp \in Responses(req) : \E now \in ClockValues :
               req.rejected /\ Settle(req, resp, now)

\* C11: a generate request with an empty or non-array objective list and a modify
\* request with an empty instruction are answered by the guard before the model
\* is asked; the page sets the rejection as its error message and keeps the list.
ValidationBeforeCall == []GuardsComeFirst /\ [][RejectionSurfaces]_vars

\* a generate request without objectives has been turned away while the list
\* held initiatives
ValidationBeforeCallWitness ==
    /\ okrs = <<>>
    /\ initiatives # <<>>
    /\ error = Message(BackendRejection("generate"))
    /\ inflight = {}

----------------------------------------------------------------------------
(* Properties of the page and the backend together, checked under SpecStack *)

\* C13: on every raw list the model returns, the backend normalizer and the
\* frontend normaliser give the same result, and the list the page stores after
\* normalising the backend's output is the backend's output.
NormalisersAlign ==
    [][\A req \in inflight : \A llm \in LlmOutcomes : \A now \in ClockValues :
           \A later \in ClockValues :
               (/\ ~req.rejected
                /\ ~llm.threw
                /\ llm.parsed.t = "object"
                /\ StackSettle(req, llm, now, later)) =>
                   LET raw == Field(llm.parsed, "initiatives")
                       b == normalizeInitiatives(raw, now)
                   IN  /\ b = normaliseInitiatives(raw, now)
                       /\ ~b.threw => initiatives' = b.list]_vars

====
